---- MODULE Spec2Model ----
(***************************************************************************)
(* Model of src/src/lib.rs: the Accessible node handle (child_at_index,    *)
(* children) and the ChildStream child enumeration stream (poll_next,      *)
(* size_hint) over a remote call channel whose replies arrive              *)
(* asynchronously.                                                         *)
(***************************************************************************)
EXTENDS Integers, Sequences, FiniteSets, TLC

(***************************************************************************)
(* Bounds of the model.                                                    *)
(***************************************************************************)
\* largest child count an enumeration is constructed with
MaxTotal == 3
\* cap on the number of items a consumer records (retry=true never ends)
MaxItems == 7
\* longest GetChildren reply
MaxChildren == 2

(***************************************************************************)
(* Program constants.                                                      *)
(***************************************************************************)
\* pub const TIMEOUT: Duration = Duration::from_secs(1)
TIMEOUT == 1
\* the literals child_at_index compares the reply against
REGISTRY == "org.a11y.atspi.Registry"
NULL_PATH == "/org/a11y/atspi/null"

(***************************************************************************)
(* Input domains: bus names, object paths, connections, deadlines.         *)
(***************************************************************************)
Dests == {REGISTRY, "org.a11y.atspi.registry", ":1.5"}
Paths == {NULL_PATH, "/org/a11y/atspi/accessible/1"}
Pairs == Dests \X Paths
Conns == {"connA", "connB"}
Timeouts == {TIMEOUT, 2}

\* Result<(String, Path), dbus::Error> of one GetChildAtIndex call
Err == [kind |-> "err", dest |-> "", path |-> ""]
Ok(d, p) == [kind |-> "ok", dest |-> d, path |-> p]
NoRes == [kind |-> "none", dest |-> "", path |-> ""]

VARIABLES
  parent,     \* the Accessible the calls are made on: its proxy
  current,    \* ChildStream.current
  total,      \* ChildStream.total
  retry,      \* ChildStream.retry
  fut,        \* ChildStream.fut: <<>> is None, <<f>> is Some(f)
  failSet,    \* the child indices whose GetChildAtIndex call fails
  issued,     \* the index of every GetChildAtIndex call sent, in order
  pending,    \* the calls (positions of issued) whose reply has not arrived
  items,      \* what the consumer received so far, in order
  lastItem,   \* the last item the consumer received, in full
  lastPoll,   \* what the last poll_next returned
  accOp,      \* the accessor last called on parent
  accIdx,     \* child_at_index: its argument
  accReply,   \* child_at_index, children: the reply the channel gave
  accRet,     \* child_at_index, children: what it returned
  snapIn,     \* accessible_with_children: the child count and failing calls
  snapOut,    \* accessible_with_children: how it ended
  dropped     \* <<>> while the ChildStream lives, <<d>> once it was dropped

strm == <<current, total, retry, fut, failSet, issued, pending, items,
          lastItem, lastPoll, dropped>>
acc == <<accOp, accIdx, accReply, accRet, snapIn, snapOut>>
vars == <<parent, current, total, retry, fut, failSet, issued, pending,
          items, lastItem, lastPoll, accOp, accIdx, accReply, accRet,
          snapIn, snapOut, dropped>>

(***************************************************************************)
(* Accessible                                                              *)
(***************************************************************************)
\* Accessible::with_timeout: a proxy of (destination, path, timeout, conn)
with_timeout(destination, path, conn, timeout) ==
  [dest |-> destination, path |-> path, conn |-> conn, timeout |-> timeout]

\* Accessible::new: with_timeout with the default TIMEOUT
new(destination, path, conn) ==
  with_timeout(destination, path, conn, TIMEOUT)

IsNullChildOr(dest, path) == dest = REGISTRY \/ path = NULL_PATH
\* the condition of child_at_index's if
IsNullChild(dest, path) == dest = REGISTRY /\ path = NULL_PATH

\* Accessible::child_at_index, given the reply r to get_child_at_index(idx):
\* Err propagates by `?`, the null pair is Ok(None), any other is Ok(Some)
child_at_index(self, r) ==
  IF r.kind = "err"
    THEN [ok |-> FALSE, val |-> <<>>]
    ELSE IF IsNullChild(r.dest, r.path)
           THEN [ok |-> TRUE, val |-> <<>>]
           ELSE [ok |-> TRUE,
                 val |-> <<with_timeout(r.dest, r.path, self.conn,
                                        self.timeout)>>]

children_filtered(self, r) ==
  IF ~r.ok
    THEN [ok |-> FALSE, val |-> <<>>]
    ELSE LET ps == SelectSeq(r.pairs, LAMBDA p : ~IsNullChild(p[1], p[2]))
         IN  [ok |-> TRUE,
              val |-> [k \in 1..Len(ps) |->
                         with_timeout(ps[k][1], ps[k][2], self.conn,
                                      self.timeout)]]

\* Accessible::children, given the reply to get_children: Err propagates,
\* every pair of the list becomes a handle
children(self, r) ==
  IF ~r.ok
    THEN [ok |-> FALSE, val |-> <<>>]
    ELSE [ok |-> TRUE,
          val |-> [k \in 1..Len(r.pairs) |->
                     with_timeout(r.pairs[k][1], r.pairs[k][2], self.conn,
                                  self.timeout)]]

\* The inner calls of accessible_with_children over a parent (node 0) with
\* n children (nodes 1..n): CharacterCount, GetText, GetLocalizedRoleName
\* on every node and GetChildren on the parent.
SnapCalls(n) ==
  {<<0, c>> : c \in {"count", "text", "role", "children"}}
    \cup {<<k, c>> : k \in 1..n, c \in {"count", "text", "role"}}

\* the Result of one inner call
SnapRes(in, call) == IF call \in in.failing THEN "err" ELSE "ok"

unwrap_or_default(r) == "ok"
\* Result::unwrap: the value of Ok, a panic of the calling task on Err (a
\* panic of the callee goes on unwinding)
unwrap(r) == IF r = "ok" THEN "ok" ELSE "panic"

\* Accessible::get_text: character_count().await.unwrap(), then the Result
\* of get_text(0, length)
get_text(cnt, txt) == IF unwrap(cnt) = "panic" THEN "panic" ELSE txt

\* the first of the outcomes, in program order, that is not "ok"
RECURSIVE FirstFailure(_)
FirstFailure(outs) ==
  IF outs = <<>> THEN "ok"
  ELSE IF Head(outs) # "ok" THEN Head(outs)
  ELSE FirstFailure(Tail(outs))

\* Accessible::accessible_with_children: text, role and children of self
\* are unwrapped in turn, then the (text, role) block of every child; the
\* only return is Ok(snapshot). The source collects the children's async
\* blocks as the elements; each element is taken to be its block's value.
accessible_with_children(in) ==
  LET own == <<unwrap(get_text(SnapRes(in, <<0, "count">>),
                               SnapRes(in, <<0, "text">>))),
               unwrap(SnapRes(in, <<0, "role">>)),
               unwrap(SnapRes(in, <<0, "children">>))>>
      kid(k) == <<unwrap(get_text(SnapRes(in, <<k, "count">>),
                                  SnapRes(in, <<k, "text">>))),
                  unwrap(SnapRes(in, <<k, "role">>))>>
      RECURSIVE kids(_)
      kids(k) == IF k > in.n THEN <<>> ELSE kid(k) \o kids(k + 1)
  IN  FirstFailure(own \o kids(1))

(***************************************************************************)
(* ChildStream                                                             *)
(***************************************************************************)
ExhaustedStrict(c, t) == c > t
\* if self.current >= self.total
Exhausted(c, t) == c >= t

NeedIssueWhilePending(f) == f = <<>> \/ f[1].state = "pending"
\* the else branch of `if let Some(ref mut fut) = self.fut`
NeedIssue(f) == f = <<>>

ShouldAdvanceAnyErr(isErr, r) == isErr
ShouldAdvanceRetryOnly(isErr, r) == isErr /\ r
\* if res.is_err() && !self.retry
ShouldAdvance(isErr, r) == isErr /\ ~r

AdvanceTwo(c) == c + 2
AdvanceStay(c) == c
\* self.current += 1
Advance(c) == c + 1

\* `total as usize`: value-preserving for the non-negative i32 the stream
\* holds; a negative one (sign-extended to above 2^63) is not represented
AsUsize(x) == CASE x >= 0 -> x

\* ChildStream::size_hint: (lower, upper), upper <<>> for None
size_hint(c, t, r) ==
  <<AsUsize(t), IF r THEN <<>> ELSE <<AsUsize(t)>>>>

\* MethodReply::poll on the stored call. A pending call is Pending, a call
\* whose reply arrived is Ready with it. Polling a future again after it
\* returned Ready is outside the Future contract: it panics, stays Pending
\* or reports the call's failure (its deadline), depending on the build.
FutPoll(f) ==
  CASE f.state = "pending" -> {[kind |-> "pending", res |-> NoRes]}
    [] f.state = "ready" -> {[kind |-> "ready", res |-> f.res]}
    [] OTHER -> {[kind |-> "panic", res |-> NoRes],
                 [kind |-> "pending", res |-> NoRes],
                 [kind |-> "ready", res |-> Err]}

\* res.map(|(dest, path)| Accessible::new(dest, path, conn))
MapItem(self, res) ==
  IF res.kind = "ok"
    THEN [ok |-> TRUE, h |-> <<new(res.dest, res.path, self.conn)>>]
    ELSE [ok |-> FALSE, h |-> <<>>]

\* ChildStream::poll_next
poll_next ==
  /\ lastPoll # "panic"
  /\ dropped = <<>>
  /\ UNCHANGED <<parent, total, retry, failSet, acc, dropped>>
  /\ IF Exhausted(current, total)
       THEN /\ lastPoll' = "end"
            /\ UNCHANGED <<current, fut, issued, pending, items, lastItem>>
       ELSE LET issue == NeedIssue(fut)
                id == Len(issued) + 1
                f1 == IF issue
                        THEN [id |-> id, state |-> "pending", res |-> NoRes]
                        ELSE fut[1]
                issued1 == IF issue THEN Append(issued, current) ELSE issued
            IN  /\ issued' = issued1
                /\ pending' = IF issue THEN pending \cup {id} ELSE pending
                /\ \E out \in FutPoll(f1) :
                     CASE out.kind = "pending" ->
                            /\ fut' = <<f1>>
                            /\ lastPoll' = "pending"
                            /\ UNCHANGED <<current, items, lastItem>>
                       [] out.kind = "panic" ->
                            /\ fut' = <<f1>>
                            /\ lastPoll' = "panic"
                            /\ UNCHANGED <<current, items, lastItem>>
                       [] OTHER ->
                            /\ Len(items) < MaxItems
                            /\ IF ShouldAdvance(out.res.kind = "err", retry)
                                 THEN /\ current' = Advance(current)
                                      /\ fut' = <<>>
                                 ELSE /\ current' = current
                                      /\ fut' = <<[f1 EXCEPT
                                                     !.state = "done",
                                                     !.res = NoRes]>>
                            /\ items' = Append(items,
                                          [idx |-> issued1[f1.id],
                                           ok |-> out.res.kind = "ok"])
                            /\ lastItem' = <<MapItem(parent, out.res)>>
                            /\ lastPoll' = "item"

\* The reply to an outstanding GetChildAtIndex call arrives: a failure for
\* the indices of failSet, else some (destination, path) pair.
Resolve ==
  /\ \E id \in pending :
       /\ pending' = pending \ {id}
       /\ \E res \in IF issued[id] \in failSet
                       THEN {Err}
                       ELSE {Ok(p[1], p[2]) : p \in Pairs} :
            fut' = IF fut # <<>> /\ fut[1].id = id /\ fut[1].state = "pending"
                     THEN <<[fut[1] EXCEPT !.state = "ready", !.res = res]>>
                     ELSE fut
  /\ UNCHANGED <<parent, current, total, retry, failSet, issued, items,
                 lastItem, lastPoll, acc, dropped>>

Parents == {with_timeout(":1.0", "/org/a11y/atspi/accessible/root", c, t) :
              c \in Conns, t \in Timeouts}

\* A ChildStream over parent with current = 0, no call stored
Init ==
  /\ parent \in Parents
  /\ current = 0
  /\ total \in 0..MaxTotal
  /\ retry \in BOOLEAN
  /\ fut = <<>>
  /\ failSet \in SUBSET (0..(total - 1))
  /\ issued = <<>>
  /\ pending = {}
  /\ items = <<>>
  /\ lastItem = <<>>
  /\ lastPoll = "none"
  /\ accOp = "none"
  /\ accIdx = 0
  /\ accReply = [ok |-> FALSE, pairs |-> <<>>]
  /\ accRet = [ok |-> FALSE, val |-> <<>>]
  /\ snapIn = [n |-> 0, failing |-> {}]
  /\ snapOut = "none"
  /\ dropped = <<>>

Next == poll_next \/ Resolve

Spec == Init /\ [][Next]_vars

\* the consumer keeps polling and every call sent is answered
FairSpec == Spec /\ WF_vars(poll_next) /\ WF_vars(Resolve)

drop_sending_call ==
  /\ dropped = <<>>
  /\ dropped' = <<[calls |-> Len(issued), items |-> Len(items),
                   poll |-> lastPoll, outstanding |-> pending # {}]>>
  /\ fut' = <<>>
  /\ issued' = Append(issued, current)
  /\ pending' = pending \cup {Len(issued) + 1}
  /\ UNCHANGED <<parent, current, total, retry, failSet, items, lastItem,
                 lastPoll, acc>>

\* The consumer drops the ChildStream. The struct has no Drop impl: its
\* fields go, the stored MethodReply with them, and poll_next can no longer
\* be called. dropped records what the consumer had seen by then.
drop ==
  /\ dropped = <<>>
  /\ dropped' = <<[calls |-> Len(issued), items |-> Len(items),
                   poll |-> lastPoll, outstanding |-> pending # {}]>>
  /\ fut' = <<>>
  /\ UNCHANGED <<parent, current, total, retry, failSet, issued, pending,
                 items, lastItem, lastPoll, acc>>

NextDrop == poll_next \/ Resolve \/ drop

\* the stream with a consumer that may drop it at any point
DropSpec == Init /\ [][NextDrop]_vars

(***************************************************************************)
(* The accessors on their own: one call of child_at_index, children or     *)
(* accessible_with_children on a parent, for each reply the channel can    *)
(* give.                                                                   *)
(***************************************************************************)
PairSeqs == UNION {[1..n -> Pairs] : n \in 0..MaxChildren}

ChildAtIndexCall ==
  /\ accOp = "none"
  /\ \E idx \in 0..(MaxTotal - 1), r \in {Err} \cup {Ok(p[1], p[2]) : p \in Pairs} :
       /\ accOp' = "child_at_index"
       /\ accIdx' = idx
       /\ accReply' = [ok |-> r.kind = "ok",
                       pairs |-> IF r.kind = "ok"
                                   THEN <<(<<r.dest, r.path>>)>> ELSE <<>>]
       /\ accRet' = child_at_index(parent, r)
  /\ snapIn' = [n |-> 0, failing |-> {}]
  /\ snapOut' = "none"
  /\ UNCHANGED <<parent, strm>>

ChildrenCall ==
  /\ accOp = "none"
  /\ \E r \in {[ok |-> FALSE, pairs |-> <<>>]}
                \cup {[ok |-> TRUE, pairs |-> s] : s \in PairSeqs} :
       /\ accOp' = "children"
       /\ accIdx' = 0
       /\ accReply' = r
       /\ accRet' = children(parent, r)
  /\ snapIn' = [n |-> 0, failing |-> {}]
  /\ snapOut' = "none"
  /\ UNCHANGED <<parent, strm>>

InitAcc ==
  /\ parent \in Parents
  /\ current = 0
  /\ total = 0
  /\ retry = FALSE
  /\ fut = <<>>
  /\ failSet = {}
  /\ issued = <<>>
  /\ pending = {}
  /\ items = <<>>
  /\ lastItem = <<>>
  /\ lastPoll = "none"
  /\ accOp = "none"
  /\ accIdx = 0
  /\ accReply = [ok |-> FALSE, pairs |-> <<>>]
  /\ accRet = [ok |-> FALSE, val |-> <<>>]
  /\ snapIn = [n |-> 0, failing |-> {}]
  /\ snapOut = "none"
  /\ dropped = <<>>

SnapshotCall ==
  /\ accOp = "none"
  /\ \E n \in 0..MaxChildren :
       \E failing \in SUBSET SnapCalls(n) :
         /\ accOp' = "accessible_with_children"
         /\ snapIn' = [n |-> n, failing |-> failing]
         /\ snapOut' = accessible_with_children(snapIn')
  /\ accIdx' = 0
  /\ accReply' = [ok |-> FALSE, pairs |-> <<>>]
  /\ accRet' = [ok |-> FALSE, val |-> <<>>]
  /\ UNCHANGED <<parent, strm>>

NextAcc == ChildAtIndexCall \/ ChildrenCall \/ SnapshotCall

AccSpec == InitAcc /\ [][NextAcc]_vars

TypeOK ==
  /\ current \in Int
  /\ total \in 0..MaxTotal
  /\ Len(fut) <= 1
  /\ lastPoll \in {"none", "pending", "item", "end", "panic"}

(***************************************************************************)
(* Properties                                                              *)
(***************************************************************************)
Sentinel == <<REGISTRY, NULL_PATH>>

\* C1: with retry = false and every call succeeding, the consumer receives
\* exactly total items: the k-th is the successful handle of index k, no
\* index comes twice, polling does not abort, and the end is reported only
\* after total items.
C1_AllSucceedYieldsEachIndexOnce ==
  (~retry /\ failSet = {}) =>
    /\ lastPoll # "panic"
    /\ Len(items) <= total
    /\ \A k \in 1..Len(items) : items[k].ok /\ items[k].idx = k - 1
    /\ (lastPoll = "end" => Len(items) = total)

\* C2: with retry = false and the calls of the indices of failSet failing,
\* the consumer receives exactly total items in index order, the item at
\* position k being a failure exactly when k is in failSet; a failure does
\* not end the enumeration.
C2_FailuresArePerItem ==
  ~retry =>
    /\ lastPoll # "panic"
    /\ Len(items) <= total
    /\ \A k \in 1..Len(items) :
         /\ items[k].idx = k - 1
         /\ items[k].ok <=> (k - 1) \notin failSet
    /\ (lastPoll = "end" => Len(items) = total)

\* C3: with retry = false, when every call is answered and the consumer
\* keeps polling, the stream eventually reaches current = total and reports
\* the end.
C3_Terminates == (~retry) ~> (lastPoll = "end" /\ current = total)

\* C4: 0 <= current <= total in every reachable state, for either retry.
C4_CurrentInRange == 0 <= current /\ current <= total

C4_Witness == current = total /\ total >= 2 /\ Len(items) >= 2

\* C5: at most one call sent by the stream is unanswered at any time.
C5_AtMostOneOutstanding == Cardinality(pending) <= 1

C5_Witness ==
  Cardinality(pending) = 1 /\ Len(issued) >= 2 /\ lastPoll = "pending"

\* C6: with retry = true and index i always failing, current never passes
\* i: no item of a later index is yielded and the end is never reported.
C6_RetryNeverPassesFailingIndex ==
  retry =>
    \A i \in failSet :
      /\ current <= i
      /\ lastPoll # "end"
      /\ \A k \in 1..Len(items) : items[k].idx <= i

C6_Witness ==
  /\ retry
  /\ 0 \in failSet
  /\ Len(items) >= 3
  /\ \A k \in 1..Len(items) : ~items[k].ok

\* C7: every child handle produced from a parent (by child_at_index, by
\* children, or as a successful item of the stream) carries the parent's
\* connection and the parent's deadline.
C7_ChildCarriesParentConnAndDeadline ==
  /\ (lastItem # <<>> /\ lastItem[1].ok) =>
       /\ lastItem[1].h[1].conn = parent.conn
       /\ lastItem[1].h[1].timeout = parent.timeout
  /\ \A k \in 1..Len(accRet.val) :
       /\ accRet.val[k].conn = parent.conn
       /\ accRet.val[k].timeout = parent.timeout

\* C8: child_at_index returns Ok(None) exactly when the reply is the null
\* pair, never an error for a successful reply, never a handle of the null
\* identity, and a handle of the replied identity for every other reply.
C8_NullChildIsNone ==
  (accOp = "child_at_index" /\ accReply.ok) =>
    /\ accRet.ok
    /\ (accRet.val = <<>>) <=> (accReply.pairs[1] = Sentinel)
    /\ accRet.val # <<>> =>
         /\ <<accRet.val[1].dest, accRet.val[1].path>> = accReply.pairs[1]
         /\ <<accRet.val[1].dest, accRet.val[1].path>> # Sentinel

C8_Witness ==
  /\ accOp = "child_at_index"
  /\ accReply = [ok |-> TRUE, pairs |-> <<Sentinel>>]
  /\ accRet = [ok |-> TRUE, val |-> <<>>]

\* C9: once current >= total, every step reports the end, sends no call,
\* yields nothing and leaves current and the stored call as they are.
C9_ExhaustedStaysExhausted ==
  [][current >= total =>
       /\ lastPoll' = "end"
       /\ UNCHANGED <<current, fut, issued, pending, items, lastItem>>]_vars

C9_Witness == lastPoll = "end" /\ current = total /\ total >= 2

\* C10: size_hint's lower bound is total - current; its upper bound is the
\* same value when retry = false and None when retry = true.
C10_SizeHintIsRemaining ==
  LET sh == size_hint(current, total, retry)
  IN  /\ sh[1] = total - current
      /\ sh[2] = IF retry THEN <<>> ELSE <<total - current>>

C12_CallsStrictlyIncreasing ==
  ~retry =>
    /\ \A k \in 1..Len(issued) : 0 <= issued[k] /\ issued[k] < total
    /\ \A j, k \in 1..Len(issued) : j < k => issued[j] < issued[k]
    /\ \A j, k \in 1..Len(items) : j < k => items[j].idx <= items[k].idx

C12_Witness == ~retry /\ Len(issued) >= 3 /\ Len(items) >= 3

\* C13: after the stream was dropped with a call outstanding, it sends no
\* further call and the consumer is delivered nothing, in particular no
\* error for the discarded call.
C13_DropIsSilent ==
  dropped # <<>> =>
    /\ Len(issued) = dropped[1].calls
    /\ Len(items) = dropped[1].items
    /\ lastPoll = dropped[1].poll

C13_Witness ==
  /\ dropped # <<>>
  /\ dropped[1].outstanding
  /\ dropped[1].calls >= 2
  /\ current < total
  /\ pending = {}

\* C14: children() turns a successful GetChildren reply into one handle
\* per pair, in the reply's order, without filtering: the null pair becomes
\* a handle of the null identity, where child_at_index on that pair gives
\* "no child".
C14_ChildrenDoesNotFilter ==
  (accOp = "children" /\ accReply.ok) =>
    /\ accRet.ok
    /\ Len(accRet.val) = Len(accReply.pairs)
    /\ \A k \in 1..Len(accReply.pairs) :
         /\ k <= Len(accRet.val)
         /\ <<accRet.val[k].dest, accRet.val[k].path>> = accReply.pairs[k]
         /\ accReply.pairs[k] = Sentinel =>
              child_at_index(parent, Ok(Sentinel[1], Sentinel[2]))
                = [ok |-> TRUE, val |-> <<>>]

C14_Witness ==
  /\ accOp = "children"
  /\ accReply.ok
  /\ Len(accReply.pairs) = 2
  /\ accReply.pairs[2] = Sentinel
  /\ accReply.pairs[1] # Sentinel
  /\ Len(accRet.val) = 2

\* the step is a poll_next that yields an item, which is a failure
YieldsFailure == Len(items') = Len(items) + 1 /\ ~items'[Len(items')].ok
\* the stored call's reply has arrived and is a success
StoredSuccess ==
  fut # <<>> /\ fut[1].state = "ready" /\ fut[1].res.kind = "ok"
\* the state right after a poll_next yielded a failure
AfterFailure == lastPoll = "item" /\ lastItem # <<>> /\ ~lastItem[1].ok

\* C15: the step that yields the handle of a successfully resolved call
\* leaves no call stored and advances current by exactly 1, for either
\* retry.
C15_SuccessDiscardsAndAdvances ==
  [][(StoredSuccess /\ Len(items') = Len(items) + 1) =>
       (fut' = <<>> /\ current' = current + 1)]_vars

\* C16: with retry = false, the step that yields a failure advances
\* current by exactly 1, leaves no call stored and yields the failure as
\* the item; the next poll, if current < total, sends a fresh call for the
\* new current.
C16_FailureAdvancesWithoutRetry ==
  [][/\ (~retry /\ YieldsFailure) =>
          /\ current' = current + 1
          /\ fut' = <<>>
          /\ lastItem' = <<[ok |-> FALSE, h |-> <<>>]>>
          /\ lastPoll' = "item"
     /\ (~retry /\ AfterFailure /\ current < total) =>
          /\ fut = <<>>
          /\ issued' = Append(issued, current)
          /\ fut' = <<[id |-> Len(issued'), state |-> "pending",
                       res |-> NoRes]>>]_vars

C16_Witness ==
  /\ ~retry
  /\ Len(items) = 1
  /\ ~items[1].ok
  /\ issued = <<0, 1>>
  /\ fut # <<>>
  /\ fut[1].state = "pending"

\* C17: with retry = true, the step that yields a failure leaves current
\* unchanged, and the next poll sends a new call for the same index
\* instead of polling the resolved call again.
C17_RetryReissuesSameIndex ==
  [][/\ (retry /\ YieldsFailure) => current' = current
     /\ (retry /\ AfterFailure) =>
          /\ issued' = Append(issued, current)
          /\ current' = current]_vars

\* C18: no step changes total, retry or the parent; a poll_next that
\* returns Pending leaves current unchanged and yields nothing, and at most
\* stores the call it has just sent where none was stored.
C18_PollFrame ==
  [][/\ total' = total
     /\ retry' = retry
     /\ parent' = parent
     /\ (lastPoll' = "pending" /\ pending \subseteq pending') =>
          /\ current' = current
          /\ items' = items
          /\ lastItem' = lastItem
          /\ \/ fut' = fut /\ issued' = issued /\ pending' = pending
             \/ /\ fut = <<>>
                /\ issued' = Append(issued, current)
                /\ pending' = pending \cup {Len(issued')}
                /\ fut' = <<[id |-> Len(issued'), state |-> "pending",
                             res |-> NoRes]>>]_vars

C18_Witness ==
  /\ lastPoll = "pending"
  /\ Len(issued) >= 2
  /\ Len(items) >= 1
  /\ pending # {}

\* C19: poll_next never polls a call that has already delivered its
\* result: with such a call stored, a step replaces it by a fresh call
\* before polling.
C19_NeverPollsDeliveredCall ==
  [][(fut # <<>> /\ fut[1].state = "done") =>
       (fut' # fut /\ issued' # issued)]_vars

\* C20: a successful item the stream yields for a reply has the identity
\* of the handle child_at_index returns for that reply, and is never a
\* handle of the null identity.
C20_StreamAgreesWithChildAtIndex ==
  [][(StoredSuccess /\ Len(items') = Len(items) + 1 /\ lastItem'[1].ok) =>
       LET c == child_at_index(parent, fut[1].res)
           id == <<lastItem'[1].h[1].dest, lastItem'[1].h[1].path>>
       IN  /\ c.val # <<>>
           /\ id = <<c.val[1].dest, c.val[1].path>>
           /\ id # Sentinel]_vars

====
